---- MODULE Spec2Model ----
(***************************************************************************)
(* A model of git-summit (src/git-summit.ts): one invocation of main, the  *)
(* git, OpenAI and filesystem calls it makes, the semver increment behind  *)
(* getNewVersion and the changelog splice behind updateChangelog.          *)
(*                                                                         *)
(* Text (tags, versions, file contents, generated notes) is a sequence of  *)
(* one-character strings, so that parsing, formatting, String.split and    *)
(* template-literal concatenation are computed character by character.     *)
(***************************************************************************)
EXTENDS Integers, Sequences, FiniteSets

VARIABLES
    pc,             \* position of main: which call comes next
    key,            \* process.env.OPENAI_API_KEY
    opts,           \* the parsed CLI options (argv)
    repo,           \* what git.tags() answers: [all, latest]
    fs,             \* the filesystem: path -> content or Missing
    fs0,            \* the filesystem before the (first) run
    changelogPath,  \* main's const changelogPath
    outputPath,     \* main's const outputPath
    latestTag,      \* main's const latestTag
    since,          \* main's const since
    commits,        \* main's const commits
    newVersion,     \* main's const newVersion
    summary,        \* main's const summary (the generated notes)
    changelog,      \* updateChangelog's local changelog (the content read)
    incBase,        \* the base tag getNewVersion was called with
    gitLog,         \* the git calls made, in order
    aiLog,          \* the chat-completion requests sent, in order
    fsLog,          \* the filesystem calls made, in order
    errors,         \* what console.error reported, in order
    printed,        \* the notes console.log printed in a dry run
    entries         \* the entries successfully spliced into the changelog

vars == <<pc, key, opts, repo, fs, fs0, changelogPath, outputPath, latestTag,
          since, commits, newVersion, summary, changelog, incBase, gitLog,
          aiLog, fsLog, errors, printed, entries>>

(***************************************************************************)
(* JavaScript values that are not text.  Each is a one-element sequence    *)
(* holding a long token, so it never equals a text (whose elements are     *)
(* single characters) and can still be compared with one.                  *)
(***************************************************************************)
Null == <<"null">>
Undefined == <<"undefined-value">>
Missing == <<"ENOENT">>
Invalid == <<"invalid-semver">>
NotFound == <<"not-found">>

\* JavaScript truthiness of a string | null | undefined.
Truthy(x) == x # Null /\ x # Undefined /\ x # <<>>

\* a ?? b
Coalesce(a, b) == IF a = Null \/ a = Undefined THEN b ELSE a

\* What a template literal `${x}` contributes.
ToStr(x) ==
    IF x = Undefined THEN <<"u", "n", "d", "e", "f", "i", "n", "e", "d">>
    ELSE IF x = Null THEN <<"n", "u", "l", "l">>
    ELSE x

(***************************************************************************)
(* Text helpers.                                                           *)
(***************************************************************************)
IsMatchAt(s, sep, i) ==
    /\ i + Len(sep) - 1 <= Len(s)
    /\ SubSeq(s, i, i + Len(sep) - 1) = sep

\* The 1-based index of the first occurrence of sep in s at or after from; 0 if none.
RECURSIVE IndexOfFrom(_, _, _)
IndexOfFrom(s, sep, from) ==
    IF from + Len(sep) - 1 > Len(s) THEN 0
    ELSE IF IsMatchAt(s, sep, from) THEN from
    ELSE IndexOfFrom(s, sep, from + 1)

\* String.prototype.split(sep) for a non-empty separator.
RECURSIVE Split(_, _)
Split(s, sep) ==
    LET i == IndexOfFrom(s, sep, 1)
    IN  IF i = 0 THEN <<s>>
        ELSE <<SubSeq(s, 1, i - 1)>> \o Split(SubSeq(s, i + Len(sep), Len(s)), sep)

\* Array index a[i] with JavaScript's 0-based i: undefined when out of range.
At(a, i) == IF i + 1 <= Len(a) THEN a[i + 1] ELSE Undefined

\* Array.prototype.join(sep).
RECURSIVE Join(_, _)
Join(a, sep) ==
    IF Len(a) = 0 THEN <<>>
    ELSE IF Len(a) = 1 THEN a[1]
    ELSE a[1] \o sep \o Join(Tail(a), sep)

Digits == <<"0", "1", "2", "3", "4", "5", "6", "7", "8", "9">>
Letters ==
    {"a", "b", "c", "d", "e", "f", "g", "h", "i", "j", "k", "l", "m", "n", "o",
     "p", "q", "r", "s", "t", "u", "v", "w", "x", "y", "z", "A", "B", "C", "D",
     "E", "F", "G", "H", "I", "J", "K", "L", "M", "N", "O", "P", "Q", "R", "S",
     "T", "U", "V", "W", "X", "Y", "Z"}

IsDigit(c) == \E d \in 1..10 : Digits[d] = c
DigitVal(c) == (CHOOSE d \in 1..10 : Digits[d] = c) - 1

\* /^[0-9]+$/
AllDigits(s) == Len(s) > 0 /\ \A i \in 1..Len(s) : IsDigit(s[i])

\* Number(s) for a string of digits.
RECURSIVE ParseNat(_)
ParseNat(s) ==
    IF Len(s) = 0 THEN 0
    ELSE 10 * ParseNat(SubSeq(s, 1, Len(s) - 1)) + DigitVal(s[Len(s)])

\* String(n) for a natural number.
RECURSIVE FormatNat(_)
FormatNat(n) ==
    IF n < 10 THEN <<Digits[n + 1]>>
    ELSE FormatNat(n \div 10) \o <<Digits[(n % 10) + 1]>>

(***************************************************************************)
(* semver, as getNewVersion uses it: parse, inc, format.                   *)
(* A parsed version is [ok, major, minor, patch, prerelease]; a prerelease *)
(* identifier is [num |-> TRUE, n |-> number] or [num |-> FALSE, s |-> text]. *)
(***************************************************************************)
ReleaseTypes ==
    {"major", "premajor", "minor", "preminor", "patch", "prepatch", "prerelease"}

\* NUMERICIDENTIFIER: 0|[1-9]\d*
IsNumericId(s) == AllDigits(s) /\ (Len(s) = 1 \/ s[1] # "0")

\* NONNUMERICIDENTIFIER: \d*[a-zA-Z-][a-zA-Z0-9-]*
IsNonNumericId(s) ==
    /\ Len(s) > 0
    /\ \A i \in 1..Len(s) : IsDigit(s[i]) \/ s[i] \in Letters \/ s[i] = "-"
    /\ \E i \in 1..Len(s) : ~IsDigit(s[i])

\* BUILDIDENTIFIER: [0-9A-Za-z-]+
IsBuildId(s) ==
    /\ Len(s) > 0
    /\ \A i \in 1..Len(s) : IsDigit(s[i]) \/ s[i] \in Letters \/ s[i] = "-"

\* One prerelease identifier as the SemVer constructor stores it.
PreId(s) ==
    IF AllDigits(s) THEN [num |-> TRUE, n |-> ParseNat(s), s |-> <<>>]
    ELSE [num |-> FALSE, n |-> 0, s |-> s]

\* What stands for semver.parse's null: a version whose ok field is FALSE.
NoVersion == [ok |-> FALSE, major |-> 0, minor |-> 0, patch |-> 0, prerelease |-> <<>>]

\* semver.parse(version): the FULL pattern
\*   ^v?MAIN(-PRERELEASE)?(\+BUILD)?$
\* giving the parsed version, or NoVersion where semver.parse returns null.
SemverParse(version) ==
    LET s0 == IF Len(version) > 0 /\ version[1] = "v" THEN Tail(version) ELSE version
        plus == IndexOfFrom(s0, <<"+">>, 1)
        core == IF plus = 0 THEN s0 ELSE SubSeq(s0, 1, plus - 1)
        build == IF plus = 0 THEN <<>> ELSE SubSeq(s0, plus + 1, Len(s0))
        dash == IndexOfFrom(core, <<"-">>, 1)
        main == IF dash = 0 THEN core ELSE SubSeq(core, 1, dash - 1)
        pre == IF dash = 0 THEN <<>> ELSE SubSeq(core, dash + 1, Len(core))
        mainParts == Split(main, <<".">>)
        preParts == IF dash = 0 THEN <<>> ELSE Split(pre, <<".">>)
        buildParts == IF plus = 0 THEN <<>> ELSE Split(build, <<".">>)
        ok ==
            /\ Len(mainParts) = 3
            /\ \A i \in 1..3 : IsNumericId(mainParts[i])
            /\ \A i \in 1..Len(preParts) :
                   IsNumericId(preParts[i]) \/ IsNonNumericId(preParts[i])
            /\ \A i \in 1..Len(buildParts) : IsBuildId(buildParts[i])
    IN  IF ~ok THEN NoVersion
        ELSE [ok |-> TRUE,
              major |-> ParseNat(mainParts[1]),
              minor |-> ParseNat(mainParts[2]),
              patch |-> ParseNat(mainParts[3]),
              prerelease |-> [i \in 1..Len(preParts) |-> PreId(preParts[i])]]

\* The index of the last numeric identifier of a prerelease list; 0 if none.
RECURSIVE LastNumeric(_, _)
LastNumeric(p, i) ==
    IF i = 0 THEN 0
    ELSE IF p[i].num THEN i
    ELSE LastNumeric(p, i - 1)

\* SemVer.inc('pre') with no identifier.
IncPre(v) ==
    LET p == v.prerelease
        i == LastNumeric(p, Len(p))
    IN  IF Len(p) = 0
        THEN [v EXCEPT !.prerelease = <<[num |-> TRUE, n |-> 0, s |-> <<>>]>>]
        ELSE IF i = 0
        THEN [v EXCEPT !.prerelease = Append(p, [num |-> TRUE, n |-> 0, s |-> <<>>])]
        ELSE [v EXCEPT !.prerelease[i].n = p[i].n + 1]

\* SemVer.inc('patch').
IncPatch(v) ==
    [v EXCEPT !.patch = IF Len(v.prerelease) = 0 THEN v.patch + 1 ELSE v.patch,
              !.prerelease = <<>>]

\* SemVer.inc(release).
Inc(v, release) ==
    CASE release = "premajor" ->
            IncPre([v EXCEPT !.prerelease = <<>>, !.patch = 0, !.minor = 0,
                             !.major = v.major + 1])
      [] release = "preminor" ->
            IncPre([v EXCEPT !.prerelease = <<>>, !.patch = 0,
                             !.minor = v.minor + 1])
      [] release = "prepatch" ->
            IncPre(IncPatch([v EXCEPT !.prerelease = <<>>]))
      [] release = "prerelease" ->
            IncPre(IF Len(v.prerelease) = 0 THEN IncPatch(v) ELSE v)
      [] release = "major" ->
            [v EXCEPT !.major = IF v.minor # 0 \/ v.patch # 0 \/ Len(v.prerelease) = 0
                                THEN v.major + 1 ELSE v.major,
                      !.minor = 0, !.patch = 0, !.prerelease = <<>>]
      [] release = "minor" ->
            [v EXCEPT !.minor = IF v.patch # 0 \/ Len(v.prerelease) = 0
                                THEN v.minor + 1 ELSE v.minor,
                      !.patch = 0, !.prerelease = <<>>]
      [] release = "patch" -> IncPatch(v)

\* One prerelease identifier as format() prints it.
FormatId(id) == IF id.num THEN FormatNat(id.n) ELSE id.s

\* SemVer.format(): major.minor.patch, then -prerelease when there is one.
SemverFormat(v) ==
    FormatNat(v.major) \o <<".">> \o FormatNat(v.minor) \o <<".">> \o FormatNat(v.patch)
    \o (IF Len(v.prerelease) = 0 THEN <<>>
        ELSE <<"-">> \o Join([i \in 1..Len(v.prerelease) |-> FormatId(v.prerelease[i])],
                             <<".">>))

\* getNewVersion with the tag's own "v" kept in front of the result.
getNewVersionKeepPrefix(releaseType, base) ==
    LET parsed == SemverParse(base)
    IN  IF ~parsed.ok THEN Invalid
        ELSE (IF Len(base) > 0 /\ base[1] = "v" THEN <<"v">> ELSE <<>>)
             \o SemverFormat(Inc(parsed, releaseType))

\* getNewVersion(releaseType, since): the new version, or Invalid where it throws.
getNewVersion(releaseType, base) ==
    LET parsed == SemverParse(base)
    IN  IF ~parsed.ok THEN Invalid
        ELSE SemverFormat(Inc(parsed, releaseType))

(***************************************************************************)
(* Bounds of the model.                                                    *)
(***************************************************************************)
\* A changelog file's initial content is made of at most this many fragments.
MaxFragments == 3
\* At most this many successive runs splice into the same changelog.
MaxRuns == 2
\* A write that fails may leave at most this many characters of the new content.
MaxPartial == 1

(***************************************************************************)
(* Program constants and the texts the inputs are drawn from.              *)
(***************************************************************************)
\* The splice marker of updateChangelog: "## [Unreleased]".
Marker == <<"#", "#", " ", "[", "U", "n", "r", "e", "l", "e", "a", "s", "e", "d", "]">>
\* The "\n\n" the template literal puts under the marker.
NN == <<"\n", "\n">>

MarkerHead == SubSeq(Marker, 1, 5)
MarkerTail == SubSeq(Marker, 6, Len(Marker))

V123 == <<"v", "1", ".", "2", ".", "3">>
V100 == <<"v", "1", ".", "0", ".", "0">>
V090 == <<"v", "0", ".", "9", ".", "0">>
V123Beta1 == V123 \o <<"-", "b", "e", "t", "a", ".", "1">>
V12 == <<"v", "1", ".", "2">>
Release == <<"r", "e", "l", "e", "a", "s", "e">>

\* Tags getNewVersion is tried on.
VersionTags ==
    {V123, V123Beta1, V100, V090, V12, Release, <<>>,
     <<"1", ".", "2", ".", "3">>,
     <<"v", "1", ".", "9", ".", "9">>,
     <<"v", "9", ".", "9", ".", "9">>,
     <<"v", "1", "0", ".", "0", ".", "1", "9">>,
     <<"v", "0", "1", ".", "2", ".", "3">>,
     <<"v", "2", ".", "0", ".", "0", "-", "r", "c">>,
     <<"v", "1", ".", "0", ".", "0", "-", "0">>,
     <<"v", "1", ".", "0", ".", "0", "-", "b", "e", "t", "a", ".", "9">>,
     <<"v", "1", ".", "0", ".", "0", "-", "1", ".", "x">>,
     <<"v", "1", ".", "2", ".", "3", "+", "b", "5">>,
     <<"v", "1", ".", "2", ".", "3", "-", "0", "1">>}

\* Whether a tag contains a ".".
HasDot(tag) == \E i \in 1..Len(tag) : tag[i] = "."

\* simple-git's TagList.latest: the last tag of the list that contains a ".".
RECURSIVE Latest(_)
Latest(all) ==
    IF Len(all) = 0 THEN Undefined
    ELSE IF HasDot(all[Len(all)]) THEN all[Len(all)]
    ELSE Latest(SubSeq(all, 1, Len(all) - 1))

\* What git.tags() resolves to for a tag list.
TagList(all) == [all |-> all, latest |-> Latest(all)]

\* The repositories a run is tried on.
TagLists == {<<>>, <<V123>>, <<V100, V123>>, <<Release>>, <<V100, V12>>}

\* What git.log(...).all.map(message) may be.
CommitLists == {<<>>, <<<<"f", "i", "x">>, <<"a", "d", "d">>>>}

\* All concatenations of at most n texts of F.
RECURSIVE Concats(_, _)
Concats(F, n) ==
    IF n = 0 THEN {<<>>}
    ELSE LET shorter == Concats(F, n - 1)
         IN  shorter \cup {c \o f : c \in shorter, f \in F}

\* The pieces changelog contents are made of.
Fragments == {<<"a", "\n">>, Marker, MarkerHead, MarkerTail}

\* The changelog contents updateChangelog is tried on.
Contents == Concats(Fragments, MaxFragments)

\* The texts choices[0].message.content may be.
EntryTexts == {<<"x">>, <<"y", "\n">> \o Marker \o <<"z">>, MarkerHead, MarkerTail}

\* The file contents whole runs are tried on.
PipelineContents == {Missing, <<"a", "\n">> \o Marker \o <<"\n", "b">>, <<"o", "l", "d">>}

\* The generated texts whole runs are tried on.
PipelineTexts == {<<>>, <<"x">>}

\* Option values: an omitted path option, and process.cwd().
ArgAbsent == "<absent>"
Cwd == "/repo"
NoPath == <<>>

PathArgGiven(arg) == arg # ArgAbsent /\ arg # ""

\* path.join(process.cwd(), arg)
PathJoin(cwd, arg) == <<cwd, arg>>

ChangelogFile == PathJoin(Cwd, "CHANGELOG.md")
ReleaseFile == PathJoin(Cwd, "RELEASE.md")
Files == {ChangelogFile, ReleaseFile}

(***************************************************************************)
(* The pieces of main.                                                     *)
(***************************************************************************)
\* The catch block of main: report the error, once, and end the run.
Throw(kind) ==
    /\ errors' = Append(errors, kind)
    /\ pc' = "done"

\* if (!openAIKey), accepting an empty key.
KeyMissingUndefinedOnly(k) == k = Undefined

\* if (!openAIKey)
KeyMissing(k) == ~Truthy(k)

\* arg ? path.join(process.cwd(), arg) : null, with a default file instead of null.
PathOfDefault(arg) ==
    IF PathArgGiven(arg) THEN PathJoin(Cwd, arg) ELSE ReleaseFile

\* arg ? path.join(process.cwd(), arg) : null
PathOf(arg) ==
    IF PathArgGiven(arg) THEN PathJoin(Cwd, arg) ELSE NoPath

\* getSinceTag that answers the requested tag without looking it up.
getSinceTagUnchecked(all, tag) ==
    [ok |-> TRUE, value |-> tag, error |-> ""]

\* getSinceTag(since), given what git.tags() answered.
getSinceTag(all, tag) ==
    IF Len(all) = 0 THEN [ok |-> FALSE, value |-> NotFound, error |-> "NoTagsFound"]
    ELSE IF \E i \in 1..Len(all) : all[i] = tag
    THEN [ok |-> TRUE, value |-> tag, error |-> ""]
    ELSE [ok |-> FALSE, value |-> NotFound, error |-> "TagNotFound"]

\* The base main would pass if it passed the commit bound.
VersionBaseSince(latest, sinceTag) == sinceTag

\* The base main passes to getNewVersion: latestTag.
VersionBase(latest, sinceTag) == latest

\* The branch after the summary, writing also in a dry run.
AfterSummaryAlwaysWrite(dryRun) == "writeCurrentRelease"

\* if (dryRun) { print } else { writeCurrentRelease; updateChangelog }
AfterSummary(dryRun) == IF dryRun THEN "dryRun" ELSE "writeCurrentRelease"

\* fs.writeFileSync that appends to the file instead of replacing its content.
WriteOutcomesAppend(old, data) ==
    {[ok |-> TRUE, content |-> (IF old = Missing THEN <<>> ELSE old) \o data]}
    \cup {[ok |-> FALSE, content |-> old]}

\* The splice that keeps only the part before the marker.
NewChangelogDropTail(content, newEntry) ==
    LET split == Split(content, Marker)
    IN  ToStr(At(split, 0)) \o Marker \o NN \o ToStr(newEntry)

\* `${split[0]}## [Unreleased]\n\n${newEntry}${split[1]}`
NewChangelog(content, newEntry) ==
    LET split == Split(content, Marker)
    IN  ToStr(At(split, 0)) \o Marker \o NN \o ToStr(newEntry) \o ToStr(At(split, 1))

\* What a failed fs.writeFileSync may leave in the file: the old content (the
\* open failed), or a truncated file holding a proper prefix of the data.
WriteFailureContents(old, data) ==
    {old} \cup {SubSeq(data, 1, k) : k \in 0..(IF Len(data) - 1 < MaxPartial
                                               THEN Len(data) - 1 ELSE MaxPartial)}

\* The outcomes of fs.writeFileSync(path, data): written, or thrown.
WriteOutcomes(old, data) ==
    {[ok |-> TRUE, content |-> data]}
    \cup {[ok |-> FALSE, content |-> c] : c \in WriteFailureContents(old, data)}

FsCall(fn, op, path, ok) == [fn |-> fn, op |-> op, path |-> path, ok |-> ok]

(***************************************************************************)
(* main, one action per call it awaits or makes.                           *)
(***************************************************************************)
env == <<key, opts, repo, fs0>>
locals == <<latestTag, since, commits, newVersion, summary, changelog, incBase>>

\* Lines 111-124: the paths, then the credential check.
Main ==
    /\ pc = "main"
    /\ changelogPath' = PathOf(opts.changelog)
    /\ outputPath' = PathOf(opts.output)
    /\ IF KeyMissing(key)
       THEN /\ errors' = Append(errors, "MissingCredential")
            /\ pc' = "done"
       ELSE /\ pc' = "getLatestTag"
            /\ UNCHANGED errors
    /\ UNCHANGED <<env, locals, fs, gitLog, aiLog, fsLog, printed, entries>>

\* Line 127: const latestTag = await getLatestTag()
GetLatestTag ==
    /\ pc = "getLatestTag"
    /\ \E rejected \in BOOLEAN :
        /\ gitLog' = Append(gitLog, [cmd |-> "tags", from |-> <<>>])
        /\ IF rejected THEN Throw("GitError") /\ UNCHANGED latestTag
           ELSE IF Len(repo.all) = 0 THEN Throw("NoTagsFound") /\ UNCHANGED latestTag
           ELSE /\ latestTag' = Coalesce(repo.latest, <<>>)
                /\ pc' = "getSinceTag"
                /\ UNCHANGED errors
    /\ UNCHANGED <<env, fs, changelogPath, outputPath, since, commits, newVersion,
                   summary, changelog, incBase, aiLog, fsLog, printed, entries>>

\* Line 128: const since = sinceTag ? await getSinceTag(sinceTag) : latestTag
GetSinceTag ==
    /\ pc = "getSinceTag"
    /\ IF Truthy(opts.sinceTag)
       THEN \E rejected \in BOOLEAN :
            /\ gitLog' = Append(gitLog, [cmd |-> "tags", from |-> <<>>])
            /\ LET r == getSinceTag(repo.all, opts.sinceTag)
               IN  IF rejected THEN Throw("GitError") /\ UNCHANGED since
                   ELSE IF ~r.ok THEN Throw(r.error) /\ UNCHANGED since
                   ELSE /\ since' = r.value
                        /\ pc' = "getCommits"
                        /\ UNCHANGED errors
       ELSE /\ since' = latestTag
            /\ pc' = "getCommits"
            /\ UNCHANGED <<gitLog, errors>>
    /\ UNCHANGED <<env, fs, changelogPath, outputPath, latestTag, commits, newVersion,
                   summary, changelog, incBase, aiLog, fsLog, printed, entries>>

\* Line 129: const commits = await getCommitsSinceTag(since)
GetCommitsSinceTag ==
    /\ pc = "getCommits"
    /\ \E rejected \in BOOLEAN, answer \in CommitLists :
        /\ gitLog' = Append(gitLog, [cmd |-> "log", from |-> since])
        /\ IF rejected THEN Throw("GitError") /\ UNCHANGED commits
           ELSE /\ commits' = answer
                /\ pc' = "getNewVersion"
                /\ UNCHANGED errors
    /\ UNCHANGED <<env, fs, changelogPath, outputPath, latestTag, since, newVersion,
                   summary, changelog, incBase, aiLog, fsLog, printed, entries>>

\* Line 130: const newVersion = getNewVersion(bumpArg, latestTag)
GetNewVersionCall ==
    /\ pc = "getNewVersion"
    /\ incBase' = VersionBase(latestTag, since)
    /\ LET v == getNewVersion(opts.bump, VersionBase(latestTag, since))
       IN  IF v = Invalid THEN Throw("InvalidVersion") /\ UNCHANGED newVersion
           ELSE /\ newVersion' = v
                /\ pc' = "summarize"
                /\ UNCHANGED errors
    /\ UNCHANGED <<env, fs, changelogPath, outputPath, latestTag, since, commits,
                   summary, changelog, gitLog, aiLog, fsLog, printed, entries>>

\* Line 136: const summary = await summarizeCommits(commits, newVersion),
\* then the branch on dryRun of line 138.
SummarizeCommits(texts) ==
    /\ pc = "summarize"
    /\ \E rejected \in BOOLEAN, content \in texts \cup {Null} :
        /\ aiLog' = Append(aiLog, [version |-> newVersion, commits |-> commits])
        /\ IF rejected THEN Throw("SummarizationFailed") /\ UNCHANGED summary
           ELSE /\ summary' = Coalesce(content, <<>>)
                /\ pc' = AfterSummary(opts.dryRun)
                /\ UNCHANGED errors
    /\ UNCHANGED <<env, fs, changelogPath, outputPath, latestTag, since, commits,
                   newVersion, changelog, incBase, gitLog, fsLog, printed, entries>>

\* Lines 139-140: the dry run prints the notes.
DryRun ==
    /\ pc = "dryRun"
    /\ printed' = Append(printed, summary)
    /\ pc' = "done"
    /\ UNCHANGED <<env, locals, fs, changelogPath, outputPath, gitLog, aiLog, fsLog,
                   errors, entries>>

\* Line 142: writeCurrentRelease(summary)
WriteCurrentRelease ==
    /\ pc = "writeCurrentRelease"
    /\ IF outputPath = NoPath
       THEN /\ pc' = "updateChangelog"
            /\ UNCHANGED <<fs, fsLog, errors>>
       ELSE \E w \in WriteOutcomes(fs[outputPath], summary) :
            /\ fs' = [fs EXCEPT ![outputPath] = w.content]
            /\ fsLog' = Append(fsLog, FsCall("writeCurrentRelease", "writeFileSync",
                                             outputPath, w.ok))
            /\ IF w.ok THEN pc' = "updateChangelog" /\ UNCHANGED errors
               ELSE Throw("FileIOError")
    /\ UNCHANGED <<env, locals, changelogPath, outputPath, gitLog, aiLog, printed,
                   entries>>

\* Line 143: updateChangelog(summary)
UpdateChangelog ==
    /\ pc = "updateChangelog"
    /\ IF changelogPath = NoPath
       THEN /\ pc' = "done"
            /\ UNCHANGED <<fs, fsLog, errors, changelog, entries>>
       ELSE LET exists == fs[changelogPath] # Missing
                probe == <<FsCall("updateChangelog", "existsSync", changelogPath, TRUE)>>
            IN  \E readOk \in BOOLEAN :
                IF exists /\ ~readOk
                THEN /\ fsLog' = fsLog \o probe
                         \o <<FsCall("updateChangelog", "readFileSync", changelogPath, FALSE)>>
                     /\ Throw("FileIOError")
                     /\ UNCHANGED <<fs, changelog, entries>>
                ELSE LET content == IF exists THEN fs[changelogPath] ELSE <<>>
                         read == IF exists
                                 THEN <<FsCall("updateChangelog", "readFileSync",
                                               changelogPath, TRUE)>>
                                 ELSE <<>>
                         data == NewChangelog(content, summary)
                     IN  \E w \in WriteOutcomes(fs[changelogPath], data) :
                         /\ changelog' = content
                         /\ fs' = [fs EXCEPT ![changelogPath] = w.content]
                         /\ fsLog' = fsLog \o probe \o read
                              \o <<FsCall("updateChangelog", "writeFileSync",
                                          changelogPath, w.ok)>>
                         /\ IF w.ok
                            THEN /\ pc' = "done"
                                 /\ entries' = Append(entries, summary)
                                 /\ UNCHANGED errors
                            ELSE Throw("FileIOError") /\ UNCHANGED entries
    /\ UNCHANGED <<env, changelogPath, outputPath, latestTag, since, commits,
                   newVersion, summary, incBase, gitLog, aiLog, printed>>

\* The tool is run again on the same changelog after a successful run: the new
\* run repeats lines 111-136 on the same repository and reaches updateChangelog
\* with the text the service generated this time.
NextRun ==
    /\ pc = "done"
    /\ errors = <<>>
    /\ Len(entries) < MaxRuns
    /\ \E content \in EntryTexts :
        /\ summary' = content
        /\ pc' = "updateChangelog"
    /\ UNCHANGED <<env, fs, changelogPath, outputPath, latestTag, since, commits,
                   newVersion, changelog, incBase, gitLog, aiLog, fsLog, errors,
                   printed, entries>>

(***************************************************************************)
(* Spec: one run of main, from any options, credential, repository and     *)
(* files.                                                                  *)
(***************************************************************************)
Options ==
    [changelog : {ArgAbsent, "", "CHANGELOG.md"},
     output : {ArgAbsent, "", "RELEASE.md", "CHANGELOG.md"},
     bump : {"patch", "prerelease"},
     sinceTag : {Null, <<>>, V100, V090},
     dryRun : BOOLEAN]

Init ==
    /\ pc = "main"
    /\ key \in {Undefined, <<>>, <<"s", "k">>}
    /\ opts \in Options
    /\ repo \in {TagList(all) : all \in TagLists}
    /\ fs \in [Files -> PipelineContents]
    /\ fs0 = fs
    /\ changelogPath = NoPath
    /\ outputPath = NoPath
    /\ latestTag = Undefined
    /\ since = Undefined
    /\ commits = <<>>
    /\ newVersion = Undefined
    /\ summary = Undefined
    /\ changelog = Undefined
    /\ incBase = Undefined
    /\ gitLog = <<>>
    /\ aiLog = <<>>
    /\ fsLog = <<>>
    /\ errors = <<>>
    /\ printed = <<>>
    /\ entries = <<>>

Next ==
    \/ Main
    \/ GetLatestTag
    \/ GetSinceTag
    \/ GetCommitsSinceTag
    \/ GetNewVersionCall
    \/ SummarizeCommits(PipelineTexts)
    \/ DryRun
    \/ WriteCurrentRelease
    \/ UpdateChangelog

Spec == Init /\ [][Next]_vars

(***************************************************************************)
(* SpecVersion: getNewVersion on every release type and a range of tags.   *)
(* The run stands at line 130, on a repository whose only tag is the tag.  *)
(***************************************************************************)
InitVersion ==
    /\ pc = "getNewVersion"
    /\ key = <<"s", "k">>
    /\ \E tag \in VersionTags, bump \in ReleaseTypes :
        /\ opts = [changelog |-> ArgAbsent, output |-> ArgAbsent, bump |-> bump,
                   sinceTag |-> Null, dryRun |-> TRUE]
        /\ repo = [all |-> <<tag>>, latest |-> tag]
        /\ latestTag = tag
        /\ since = tag
        /\ gitLog = <<[cmd |-> "tags", from |-> <<>>], [cmd |-> "log", from |-> tag]>>
    /\ fs = [f \in Files |-> Missing]
    /\ fs0 = fs
    /\ changelogPath = NoPath
    /\ outputPath = NoPath
    /\ commits = <<>>
    /\ newVersion = Undefined
    /\ summary = Undefined
    /\ changelog = Undefined
    /\ incBase = Undefined
    /\ aiLog = <<>>
    /\ fsLog = <<>>
    /\ errors = <<>>
    /\ printed = <<>>
    /\ entries = <<>>

NextVersion == GetNewVersionCall

SpecVersion == InitVersion /\ [][NextVersion]_vars

(***************************************************************************)
(* SpecChangelog: updateChangelog on every changelog content, run after    *)
(* run.  The first run stands at line 143 of a non-dry run with only       *)
(* --changelog configured.                                                 *)
(***************************************************************************)
InitChangelog ==
    /\ pc = "updateChangelog"
    /\ key = <<"s", "k">>
    /\ opts = [changelog |-> "CHANGELOG.md", output |-> ArgAbsent, bump |-> "patch",
               sinceTag |-> Null, dryRun |-> FALSE]
    /\ repo = TagList(<<V123>>)
    /\ fs \in [Files -> Contents \cup {Missing}]
    /\ fs[ReleaseFile] = Missing
    /\ fs0 = fs
    /\ changelogPath = ChangelogFile
    /\ outputPath = NoPath
    /\ latestTag = V123
    /\ since = V123
    /\ commits = <<>>
    /\ newVersion = getNewVersion("patch", V123)
    /\ summary \in EntryTexts
    /\ changelog = Undefined
    /\ incBase = V123
    /\ gitLog = <<[cmd |-> "tags", from |-> <<>>], [cmd |-> "log", from |-> V123]>>
    /\ aiLog = <<[version |-> getNewVersion("patch", V123), commits |-> <<>>]>>
    /\ fsLog = <<>>
    /\ errors = <<>>
    /\ printed = <<>>
    /\ entries = <<>>

NextChangelog ==
    \/ UpdateChangelog
    \/ NextRun

SpecChangelog == InitChangelog /\ [][NextChangelog]_vars

(***************************************************************************)
(* Vocabulary of the properties.                                           *)
(***************************************************************************)
Done == pc = "done"
Succeeded == Done /\ errors = <<>>
KeyPresent == key # Undefined /\ key # <<>>
SinceSupplied == opts.sinceTag # Null /\ opts.sinceTag # <<>>
SinceExists == \E i \in 1..Len(repo.all) : repo.all[i] = opts.sinceTag
GitRejected == \E i \in 1..Len(errors) : errors[i] = "GitError"
FsCallsBy(fn) == {i \in 1..Len(fsLog) : fsLog[i].fn = fn}
GitCalls(cmd) == {i \in 1..Len(gitLog) : gitLog[i].cmd = cmd}
Text(a, b, c, d, e) == <<a, ".", b, ".", c>> \o d \o e

\* Where the marker occurs in a text.
Occurrences(content) == {i \in 1..Len(content) : IsMatchAt(content, Marker, i)}
Before(content, i) == SubSeq(content, 1, i - 1)
After(content, i) == SubSeq(content, i + Len(Marker), Len(content))
First(S) == CHOOSE i \in S : \A j \in S : i <= j

\* NN \o En \o NN \o E(n-1) \o ... \o NN \o E1
RECURSIVE NewestFirst(_)
NewestFirst(es) ==
    IF Len(es) = 0 THEN <<>>
    ELSE NN \o es[Len(es)] \o NewestFirst(SubSeq(es, 1, Len(es) - 1))

(***************************************************************************)
(* C1. A dry run writes nothing: whatever the options and whatever git and *)
(* the summarization answer, a run with --dry-run never reaches            *)
(* writeCurrentRelease or updateChangelog, makes no filesystem call, and   *)
(* leaves every file as it was at the start.                               *)
(***************************************************************************)
C1_DryRunWritesNothing ==
    opts.dryRun =>
        /\ pc \notin {"writeCurrentRelease", "updateChangelog"}
        /\ fsLog = <<>>
        /\ fs = fs0

\* A dry run with both paths configured that got its summary and printed it.
C1_Witness ==
    /\ opts.dryRun
    /\ Done
    /\ printed = <<summary>>
    /\ changelogPath = ChangelogFile
    /\ outputPath = ReleaseFile
    /\ Len(aiLog) = 1

(***************************************************************************)
(* C2. Without OPENAI_API_KEY (absent or empty) the run reports the        *)
(* missing credential and ends with no git call, no summarization request  *)
(* and no file written; no git, network or filesystem call is ever made    *)
(* before the credential has been found present.                           *)
(***************************************************************************)
C2_CredentialGate ==
    /\ (gitLog # <<>> \/ aiLog # <<>> \/ fsLog # <<>> \/ fs # fs0) => KeyPresent
    /\ (~KeyPresent /\ pc # "main") =>
           /\ Done
           /\ errors = <<"MissingCredential">>
           /\ gitLog = <<>>
           /\ aiLog = <<>>
           /\ fsLog = <<>>
           /\ fs = fs0
           /\ printed = <<>>

\* A run with an empty key, and tags and paths it could have used, that ended.
C2_Witness ==
    /\ key = <<>>
    /\ Done
    /\ errors = <<"MissingCredential">>
    /\ Len(repo.all) > 0
    /\ ~opts.dryRun
    /\ changelogPath = ChangelogFile

(***************************************************************************)
(* C3 as stated: getNewVersion keeps the tag's prefix, and patch on a      *)
(* prerelease goes to the next patch: v1.2.3 gives v2.0.0, v1.3.0, v1.2.4; *)
(* v1.2.3-beta.1 gives v1.2.3-beta.2 and v1.2.4.                           *)
(***************************************************************************)
C3_Original ==
    (pc = "summarize" \/ Done) =>
        /\ (latestTag = V123 /\ opts.bump = "major") =>
               newVersion = <<"v">> \o Text("2", "0", "0", <<>>, <<>>)
        /\ (latestTag = V123 /\ opts.bump = "minor") =>
               newVersion = <<"v">> \o Text("1", "3", "0", <<>>, <<>>)
        /\ (latestTag = V123 /\ opts.bump = "patch") =>
               newVersion = <<"v">> \o Text("1", "2", "4", <<>>, <<>>)
        /\ (latestTag = V123Beta1 /\ opts.bump = "prerelease") =>
               newVersion = <<"v">> \o Text("1", "2", "3", <<"-", "b", "e", "t", "a">>, <<".", "2">>)
        /\ (latestTag = V123Beta1 /\ opts.bump = "patch") =>
               newVersion = <<"v">> \o Text("1", "2", "4", <<>>, <<>>)

(***************************************************************************)
(* C3, amended. getNewVersion returns the version without the tag's "v":   *)
(* v1.2.3 gives 2.0.0, 1.3.0 and 1.2.4 for major, minor and patch (for     *)
(* every tag [v]a.b.c: the incremented component goes up by one and the    *)
(* lower ones reset to zero); v1.2.3-beta.1 gives 1.2.3-beta.2 for         *)
(* prerelease and 1.2.3 for patch (a prerelease is promoted to its own     *)
(* patch version).                                                         *)
(***************************************************************************)
C3_VersionIncrement ==
    (pc = "summarize" \/ Done) =>
        /\ (latestTag = V123 /\ opts.bump = "major") =>
               newVersion = Text("2", "0", "0", <<>>, <<>>)
        /\ (latestTag = V123 /\ opts.bump = "minor") =>
               newVersion = Text("1", "3", "0", <<>>, <<>>)
        /\ (latestTag = V123 /\ opts.bump = "patch") =>
               newVersion = Text("1", "2", "4", <<>>, <<>>)
        /\ (latestTag = V123Beta1 /\ opts.bump = "prerelease") =>
               newVersion = Text("1", "2", "3", <<"-", "b", "e", "t", "a">>, <<".", "2">>)
        /\ (latestTag = V123Beta1 /\ opts.bump = "patch") =>
               newVersion = Text("1", "2", "3", <<>>, <<>>)
        /\ \A a, b, c \in 0..10, prefix \in {<<>>, <<"v">>} :
               latestTag = prefix \o FormatNat(a) \o <<".">> \o FormatNat(b)
                               \o <<".">> \o FormatNat(c) =>
                   /\ errors = <<>>
                   /\ opts.bump = "major" =>
                          newVersion = FormatNat(a + 1) \o <<".", "0", ".", "0">>
                   /\ opts.bump = "minor" =>
                          newVersion = FormatNat(a) \o <<".">> \o FormatNat(b + 1)
                                           \o <<".", "0">>
                   /\ opts.bump = "patch" =>
                          newVersion = FormatNat(a) \o <<".">> \o FormatNat(b)
                                           \o <<".">> \o FormatNat(c + 1)

\* getNewVersion("patch", "v1.2.3-beta.1") has returned.
C3_Witness ==
    /\ pc = "summarize"
    /\ incBase = V123Beta1
    /\ opts.bump = "patch"
    /\ newVersion = Text("1", "2", "3", <<>>, <<>>)

(***************************************************************************)
(* C4. When the content updateChangelog read holds the marker exactly      *)
(* once, as P + marker + S, a successful update with entry E leaves the    *)
(* file equal to P + marker + "\n\n" + E + S.                              *)
(***************************************************************************)
C4_SpliceUnderMarker ==
    (Succeeded /\ Len(entries) > 0 /\ Cardinality(Occurrences(changelog)) = 1) =>
        \A i \in Occurrences(changelog) :
            fs[changelogPath] =
                Before(changelog, i) \o Marker \o NN \o summary \o After(changelog, i)

\* A successful update of a file with text on both sides of its one marker.
C4_Witness ==
    /\ Succeeded
    /\ Len(entries) > 0
    /\ Cardinality(Occurrences(changelog)) = 1
    /\ \E i \in Occurrences(changelog) :
           Before(changelog, i) # <<>> /\ After(changelog, i) # <<>>
    /\ summary = <<"x">>
    /\ fs[changelogPath] # changelog

(***************************************************************************)
(* C5. With a latest tag L: the base of the version increment is L, also   *)
(* when a since-tag T # L is supplied; the commit log starts at T when T   *)
(* is supplied (and exists), and at L otherwise.                           *)
(***************************************************************************)
C5_TagPrecedence ==
    repo.latest # Undefined =>
        /\ incBase # Undefined => incBase = repo.latest
        /\ \A i \in GitCalls("log") :
               gitLog[i].from = IF SinceSupplied /\ SinceExists THEN opts.sinceTag
                                ELSE repo.latest

\* A run with --since-tag v1.0.0 on a repository whose latest tag is v1.2.3.
C5_Witness ==
    /\ opts.sinceTag = V100
    /\ repo.latest = V123
    /\ incBase = V123
    /\ \E i \in GitCalls("log") : gitLog[i].from = V100
    /\ newVersion # Undefined

(***************************************************************************)
(* C6 as stated: a run that ended in a failure of any kind has left both   *)
(* the output file and the changelog file as they were at the start.       *)
(***************************************************************************)
C6_Original ==
    (Done /\ errors # <<>>) => fs = fs0

(***************************************************************************)
(* C6, amended. A run that ended in a failure other than a FileIOError     *)
(* made no filesystem call and left every file as it was.  A run that      *)
(* ended in a FileIOError touched only the configured paths; when the      *)
(* failure was in updateChangelog, writeCurrentRelease had already         *)
(* overwritten a configured output file with the generated text, and when  *)
(* it was the read of the changelog that failed, the changelog itself is   *)
(* unchanged.                                                              *)
(***************************************************************************)
C6_FailureWrites ==
    (Done /\ errors # <<>>) =>
        /\ Len(errors) = 1
        /\ errors[1] # "FileIOError" => (fs = fs0 /\ fsLog = <<>>)
        /\ errors[1] = "FileIOError" =>
            LET last == fsLog[Len(fsLog)]
            IN  /\ ~last.ok
                /\ \A f \in Files : f \notin {outputPath, changelogPath} => fs[f] = fs0[f]
                /\ (last.fn = "updateChangelog" /\ outputPath # NoPath
                        /\ outputPath # changelogPath) =>
                       fs[outputPath] = summary
                /\ (last.op = "readFileSync" /\ outputPath # changelogPath) =>
                       fs[changelogPath] = fs0[changelogPath]

\* updateChangelog failed after writeCurrentRelease had replaced the output file.
C6_Witness ==
    /\ Done
    /\ errors = <<"FileIOError">>
    /\ fsLog[Len(fsLog)].fn = "updateChangelog"
    /\ outputPath = ReleaseFile
    /\ fs[ReleaseFile] = summary
    /\ fs0[ReleaseFile] # summary

(***************************************************************************)
(* C7. In a successful non-dry run an omitted --output makes               *)
(* writeCurrentRelease touch no file and an omitted --changelog makes      *)
(* updateChangelog touch no file, independently: with only --output the    *)
(* output file holds exactly the generated text and nothing else changed;  *)
(* with only --changelog only the changelog was read and written.          *)
(***************************************************************************)
C7_OmittedPathsAreNoOps ==
    (Succeeded /\ ~opts.dryRun) =>
        /\ ~PathArgGiven(opts.output) => FsCallsBy("writeCurrentRelease") = {}
        /\ ~PathArgGiven(opts.changelog) => FsCallsBy("updateChangelog") = {}
        /\ (PathArgGiven(opts.output) /\ ~PathArgGiven(opts.changelog)) =>
               /\ fsLog = <<FsCall("writeCurrentRelease", "writeFileSync",
                                   <<Cwd, opts.output>>, TRUE)>>
               /\ fs[<<Cwd, opts.output>>] = summary
               /\ \A f \in Files : f # <<Cwd, opts.output>> => fs[f] = fs0[f]
        /\ (~PathArgGiven(opts.output) /\ PathArgGiven(opts.changelog)) =>
               /\ \A i \in 1..Len(fsLog) : fsLog[i].path = <<Cwd, opts.changelog>>
               /\ fsLog[Len(fsLog)] = FsCall("updateChangelog", "writeFileSync",
                                             <<Cwd, opts.changelog>>, TRUE)
               /\ \A f \in Files : f # <<Cwd, opts.changelog>> => fs[f] = fs0[f]
        /\ (~PathArgGiven(opts.output) /\ ~PathArgGiven(opts.changelog)) =>
               (fsLog = <<>> /\ fs = fs0)

\* A successful run with only --output, which replaced an existing file.
C7_Witness ==
    /\ Succeeded
    /\ ~opts.dryRun
    /\ opts.output = "RELEASE.md"
    /\ opts.changelog = ArgAbsent
    /\ fs[ReleaseFile] = summary
    /\ fs0[ReleaseFile] = <<"o", "l", "d">>
    /\ fs[ChangelogFile] = fs0[ChangelogFile]

(***************************************************************************)
(* C8. The three tag failures, in the order main meets them, the git calls *)
(* themselves answering: an empty tag list ends the run with NoTagsFound;  *)
(* a supplied since-tag that is no tag of the (non-empty) list ends it     *)
(* with TagNotFound; a latest tag that is no semantic version ends it with *)
(* InvalidVersion.  In each case nothing further runs: no summarization    *)
(* request, no file written, the error reported once, no call repeated.    *)
(***************************************************************************)
C8_TagFailuresAbort ==
    (Done /\ KeyPresent /\ ~GitRejected) =>
        /\ Len(repo.all) = 0 =>
               /\ errors = <<"NoTagsFound">>
               /\ gitLog = <<[cmd |-> "tags", from |-> <<>>]>>
        /\ (Len(repo.all) > 0 /\ SinceSupplied /\ ~SinceExists) =>
               /\ errors = <<"TagNotFound">>
               /\ GitCalls("log") = {}
               /\ Len(gitLog) = 2
        /\ (Len(repo.all) > 0 /\ (SinceSupplied => SinceExists)
                /\ ~SemverParse(Coalesce(repo.latest, <<>>)).ok) =>
               /\ errors = <<"InvalidVersion">>
               /\ Cardinality(GitCalls("log")) = 1
        /\ (errors # <<>> /\ errors[1] \in {"NoTagsFound", "TagNotFound", "InvalidVersion"}) =>
               /\ Len(errors) = 1
               /\ aiLog = <<>>
               /\ fsLog = <<>>
               /\ fs = fs0
               /\ printed = <<>>

\* A non-dry run with both paths configured whose since-tag is not in the list.
C8_Witness ==
    /\ Done
    /\ errors = <<"TagNotFound">>
    /\ opts.sinceTag = V090
    /\ Len(repo.all) = 2
    /\ ~opts.dryRun
    /\ changelogPath = ChangelogFile
    /\ outputPath = ReleaseFile

(***************************************************************************)
(* C9 as stated: when the content read holds no marker (a missing file     *)
(* reads as empty), a successful update leaves the file equal to the       *)
(* content + marker + "\n\n" + the entry, with nothing after the entry.    *)
(***************************************************************************)
C9_NothingAfterEntry ==
    (Succeeded /\ Len(entries) > 0 /\ Occurrences(changelog) = {}) =>
        fs[changelogPath] = changelog \o Marker \o NN \o summary

(***************************************************************************)
(* C10 as stated: after n successful runs on a changelog that held the     *)
(* marker (here: exactly once, the layout the changelog is meant to have), *)
(* whatever the generated entries, the file is the original part before    *)
(* the marker, the marker, the entries newest first each under "\n\n",     *)
(* then the original part after the marker: no text is lost.               *)
(***************************************************************************)
C10_NoTextLost ==
    (Succeeded /\ Len(entries) > 0 /\ fs0[ChangelogFile] # Missing
        /\ Cardinality(Occurrences(fs0[ChangelogFile])) = 1) =>
        LET original == fs0[ChangelogFile]
            i == First(Occurrences(original))
        IN  fs[ChangelogFile] =
                Before(original, i) \o Marker \o NewestFirst(entries) \o After(original, i)

====
